---- MODULE Spec2Model ----
(***************************************************************************)
(* Model of rpi_electronics_playground: the HC-SR04 ultrasonic sensor      *)
(* driver (ultrasonic_sensor.py).                                          *)
(*                                                                         *)
(* Numbers.  The driver computes with floats; the model computes with      *)
(* exact fixed-point integers.  One model unit is 1/Scale of 0.01 cm,      *)
(* where Scale makes every median of raw samples (a division by 2) and     *)
(* every mean of the buffer (a division by its length) an integer.         *)
(* round(x, 1) is modelled on the exact value, ties to even.               *)
(***************************************************************************)
EXTENDS Integers, Sequences, FiniteSets, TLC

\* ---------------------------------------------------------------- bounds
\* Largest sample_count given to the constructor.
MaxSampleCount == 2
\* Largest filter_size given to the constructor.
MaxFilterSize == 3
\* Number of get_distance() calls that may reach the filtering stage.
MaxCalls == 5
\* Number of _get_single_distance() calls in the single-pulse specification.
MaxPulses == 2
\* Number of echo polls in one pulse that leave the loop running.
MaxPolls == 3
\* Number of ChangeDutyCycle commands followed on one servo.
MaxCommands == 3
\* Number of cleanup() calls followed on one component.
MaxCleanups == 3
\* Number of iterations of the measuring loop of run() followed.
MaxIterations == 4
\* Number of motor steps followed on one stepper.
MaxSteps == 3

\* ------------------------------------------------------------ arithmetic
RECURSIVE Gcd(_, _)
Gcd(a, b) == IF b = 0 THEN a ELSE Gcd(b, a % b)

RECURSIVE LcmUpTo(_)
LcmUpTo(n) == IF n <= 1 THEN 1 ELSE (LcmUpTo(n - 1) * n) \div Gcd(LcmUpTo(n - 1), n)

\* Model units per 0.01 cm: the mean of two samples and the mean of up to
\* MaxFilterSize + 1 such medians are whole numbers of units.
Scale == 2 * LcmUpTo(MaxFilterSize + 1)

\* h hundredths of a centimetre, in model units.
Cm(h) == h * Scale

Abs(x) == IF x < 0 THEN 0 - x ELSE x

\* Optional values: None is the empty tuple, a present value v is <<v>>.
None == << >>
Some(v) == << v >>

\* The failure sentinel -1.0.
Sentinel == Cm(0 - 100)

\* Values _get_single_distance() can return: the sentinel, a zero-length
\* pulse, and positive distances (25.0 and 30.0 cm).
SingleDistanceResults == {Sentinel, 0, Cm(2500), Cm(3000)}

\* outlier_threshold values given to the constructor: 3.0 cm, under which
\* 25.0 and 30.0 are outliers of each other, and the default 5.0 cm, which
\* their distance equals.
OutlierThresholds == {Cm(300), Cm(500)}

\* round(x, 1): nearest multiple of 0.1 cm, ties to even.
Round1(x) ==
    LET tenth == Cm(10)
        q == x \div tenth
        r == x % tenth
    IN  IF 2 * r < tenth THEN q * tenth
        ELSE IF 2 * r > tenth THEN (q + 1) * tenth
        ELSE IF q % 2 = 0 THEN q * tenth ELSE (q + 1) * tenth

RECURSIVE SeqSum(_)
SeqSum(s) == IF s = << >> THEN 0 ELSE Head(s) + SeqSum(Tail(s))

\* statistics.mean
Mean(s) == SeqSum(s) \div Len(s)

RECURSIVE Insert(_, _)
Insert(x, s) ==
    IF s = << >> THEN << x >>
    ELSE IF x <= Head(s) THEN << x >> \o s
    ELSE << Head(s) >> \o Insert(x, Tail(s))

RECURSIVE Sorted(_)
Sorted(s) == IF s = << >> THEN << >> ELSE Insert(Head(s), Sorted(Tail(s)))

\* Mutant: the middle of the list as it stands, without sorting it.
Median_Unsorted(s) ==
    LET n == Len(s)
    IN  IF n % 2 = 1 THEN s[(n + 1) \div 2]
        ELSE (s[n \div 2] + s[n \div 2 + 1]) \div 2

\* statistics.median: the middle element, or the mean of the two middle ones.
Median(s) ==
    LET n == Len(s)
        t == Sorted(s)
    IN  IF n % 2 = 1 THEN t[(n + 1) \div 2]
        ELSE (t[n \div 2] + t[n \div 2 + 1]) \div 2

\* ------------------------------------------------------------------ state
VARIABLES
    sample_count,         \* constructor parameter
    filter_size,          \* constructor parameter
    outlier_threshold,    \* constructor parameter
    readings_buffer,      \* deque(maxlen=filter_size)
    last_stable_reading,  \* None or Some(value)
    pc,                   \* position inside get_distance(): idle, sampling, filter
    samples_taken,        \* iterations of the sampling loop run in this call
    valid_readings,       \* local list of get_distance()
    reading,              \* last value returned by _get_single_distance()
    outlier,              \* last value returned by _is_outlier(), FALSE if not called
    positive_count,       \* raw samples > 0 seen in this call
    result,               \* None, or Some(return value of the last get_distance())
    filtered_log,         \* every filtered_distance appended so far, in order
    pre_buffer,           \* readings_buffer when the current/last call started
    pre_last,             \* last_stable_reading when the current/last call started
    fault,                \* what raised in the last step: none, pulse, sleep
    escaped,              \* an exception has propagated out of get_distance()
    \* _get_single_distance()
    ppc,                  \* position inside _get_single_distance()
    pulses,               \* calls of _get_single_distance() so far
    trig_writes,          \* every level written to the trigger pin, in order
    pulse_base,           \* length of trig_writes when the current pulse began
    echo,                 \* last level read from the echo pin
    echo_polls,           \* reads of the echo pin in the current pulse
    now,                  \* last value returned by time.time(), in ticks
    timeout_start,        \* local
    pulse_start,          \* local
    timeout_end,          \* local
    pulse_end,            \* local
    pulse_result,         \* None, or Some(return value of the last pulse)
    low_stamp,            \* clock reading that followed the last LOW read
    high_stamp,           \* clock reading that followed the last HIGH read
    waited_low,           \* the current pulse has entered the wait-for-low loop
    pulse_faulted,        \* a GPIO or clock call has raised in some pulse
    \* get_distance_with_quality()
    qpc,                  \* position inside get_distance_with_quality()
    quality,              \* the quality it returned, "none" before that
    quality_distance,     \* None, or Some(the distance it returned)
    quality_calls,        \* get_distance() calls it has made
    \* ServoMotor
    servo_pc,             \* "new" before the constructor has run, then "ready"
    locked_angle,
    unlocked_angle,
    is_locked,
    pwm,                  \* "none" or "active"
    duty_count,           \* ChangeDutyCycle calls so far
    last_duty,            \* None, or Some(duty cycle of the last such call)
    last_angle,           \* None, or Some(angle _set_angle was given for it)
    servo_log,            \* the last two calls: method, is_locked and
                          \* duty_count when it was entered
    \* BaseElectronicsComponent
    base_pc,              \* "new", "constructed" or "failed"
    is_initialized,
    gpio_pins_used,       \* _gpio_pins_used
    cleanup_calls,        \* calls of cleanup() so far
    cleanup_runs,         \* calls of _cleanup_component so far
    pin_resets,           \* pins set up and written by cleanup() so far
    base_raised,          \* what the last call raised, "none" if it returned
    \* main.run()
    rpc,                  \* position inside run()
    lcd_made,             \* the LCD1602 was constructed
    sensor_made,          \* the UltrasonicSensor was constructed
    lcd_cleanups,         \* lcd.cleanup() calls
    sensor_cleanups,      \* sensor.cleanup() calls
    gpio_cleanups,        \* GPIO.cleanup() calls
    iterations,           \* completed iterations of the measuring loop
    distance,             \* local of run(): the last measurement
    lcd_text,             \* the two lines last written to the display
    pending,              \* the exception being handled or propagated
    \* StepperMotor
    step_dir,             \* "none", "cw" or "ccw": the step being executed
    step_j,               \* loop variable j
    step_i,               \* loop variable i
    coils,                \* level last written to each of the four pins
    patterns              \* the patterns completed so far, each with the
                          \* direction of the step that wrote it

sensor_vars == << sample_count, filter_size, outlier_threshold, readings_buffer,
                  last_stable_reading, pc, samples_taken, valid_readings, reading,
                  outlier, positive_count, result, filtered_log, pre_buffer,
                  pre_last, fault, escaped >>

pulse_vars == << ppc, pulses, trig_writes, pulse_base, echo, echo_polls, now,
                 timeout_start, pulse_start, timeout_end, pulse_end,
                 pulse_result, low_stamp, high_stamp, waited_low, pulse_faulted >>

quality_vars == << qpc, quality, quality_distance, quality_calls >>

servo_vars == << servo_pc, locked_angle, unlocked_angle, is_locked, pwm,
                 duty_count, last_duty, last_angle, servo_log >>

base_vars == << base_pc, is_initialized, gpio_pins_used, cleanup_calls,
                cleanup_runs, pin_resets, base_raised >>

run_vars == << rpc, lcd_made, sensor_made, lcd_cleanups, sensor_cleanups,
               gpio_cleanups, iterations, distance, lcd_text, pending >>

stepper_vars == << step_dir, step_j, step_i, coils, patterns >>

\* Everything that is not the ultrasonic sensor.
component_vars == << quality_vars, servo_vars, base_vars, run_vars, stepper_vars >>

vars == << sensor_vars, pulse_vars, component_vars >>

config == << sample_count, filter_size, outlier_threshold >>

\* --------------------------------------------------------------- helpers
\* Mutant: a plain list append, nothing is discarded.
DequeAppend_Unbounded(buf, x, maxlen) == buf \o << x >>

\* Mutant: a full deque discards the new element's predecessor, not the oldest.
DequeAppend_DropNewest(buf, x, maxlen) ==
    IF Len(buf) >= maxlen THEN SubSeq(buf, 1, Len(buf) - 1) \o << x >>
    ELSE buf \o << x >>

\* deque.append on a deque with maxlen: the oldest element is discarded.
DequeAppend(buf, x, maxlen) ==
    IF Len(buf) >= maxlen THEN Tail(buf) \o << x >> ELSE buf \o << x >>

\* Mutant: ">=" for ">".
IsValidReading_OrZero(r) == r >= 0

\* "if reading > 0" in the sampling loop.
IsValidReading(r) == r > 0

\* Mutant: ">" for ">=".
EnoughReadings_Strict(vr, count) == Len(vr) > count

\* "if len(valid_readings) >= self.sample_count: break"
EnoughReadings(vr, count) == Len(vr) >= count

\* Mutant: a missing reference is taken to be 0.
IsOutlier_NoneAsZero(r, last, threshold) ==
    IF last = None THEN Abs(r) > threshold
    ELSE Abs(r - last[1]) > threshold

\* Mutant: ">=" for ">".
IsOutlier_Inclusive(r, last, threshold) ==
    IF last = None THEN FALSE
    ELSE Abs(r - last[1]) >= threshold

\* Mutant: the deviation is taken without abs().
IsOutlier_OneSided(r, last, threshold) ==
    IF last = None THEN FALSE
    ELSE r - last[1] > threshold

\* UltrasonicSensor._is_outlier
IsOutlier(r, last, threshold) ==
    IF last = None THEN FALSE
    ELSE Abs(r - last[1]) > threshold

\* Mutant: the moving average needs one more reading than the code asks for.
SmoothedDistance_Late(buf, filtered) ==
    IF Len(buf) >= 4 THEN Mean(buf) ELSE filtered

\* The value get_distance() stores in last_stable_reading after appending
\* filtered to the buffer (buf is the buffer after the append).
SmoothedDistance(buf, filtered) ==
    IF Len(buf) >= 3 THEN Mean(buf) ELSE filtered

\* What _get_single_distance() does with an exception raised by a GPIO or
\* clock call: "except Exception: return -1.0".
SingleDistanceOnFault == [value |-> Sentinel, raised |-> FALSE]

\* Mutant: the handler logs and re-raises, as _initialize_sensor does.
GetDistanceOnFault_Reraise == [value |-> Sentinel, raised |-> TRUE]

\* What get_distance() does with an exception raised inside its try block:
\* "except Exception: logger.exception(...); return -1.0".
GetDistanceOnFault == [value |-> Sentinel, raised |-> FALSE]

\* Mutant: the reference is the filtered distance, never the moving average.
GetDistanceOutcome_FilteredReference(vr, buf, last, maxlen) ==
    IF Len(vr) < 2
    THEN [buffer |-> buf, last |-> last, result |-> Sentinel, filtered |-> None]
    ELSE LET filtered_distance == Median(vr)
             b == DequeAppend(buf, filtered_distance, maxlen)
             smoothed_distance == SmoothedDistance(b, filtered_distance)
         IN  [buffer |-> b, last |-> Some(filtered_distance),
              result |-> Round1(smoothed_distance),
              filtered |-> Some(filtered_distance)]

\* Mutant: a failed cycle resets the filter.
GetDistanceOutcome_ResetOnFailure(vr, buf, last, maxlen) ==
    IF Len(vr) < 2
    THEN [buffer |-> << >>, last |-> None, result |-> Sentinel, filtered |-> None]
    ELSE LET filtered_distance == Median(vr)
             b == DequeAppend(buf, filtered_distance, maxlen)
             smoothed_distance == SmoothedDistance(b, filtered_distance)
         IN  [buffer |-> b, last |-> Some(smoothed_distance),
              result |-> Round1(smoothed_distance),
              filtered |-> Some(filtered_distance)]

\* Mutant: the reference is stored only on the moving-average branch.
GetDistanceOutcome_NoElseStore(vr, buf, last, maxlen) ==
    IF Len(vr) < 2
    THEN [buffer |-> buf, last |-> last, result |-> Sentinel, filtered |-> None]
    ELSE LET filtered_distance == Median(vr)
             b == DequeAppend(buf, filtered_distance, maxlen)
             smoothed_distance == SmoothedDistance(b, filtered_distance)
         IN  [buffer |-> b,
              last |-> IF Len(b) >= 3 THEN Some(smoothed_distance) ELSE last,
              result |-> Round1(smoothed_distance),
              filtered |-> Some(filtered_distance)]

\* get_distance() after the sampling loop: the new buffer, the new
\* last_stable_reading, the return value and the filtered distance appended
\* (None when the call gives up).
GetDistanceOutcome(vr, buf, last, maxlen) ==
    IF Len(vr) < 2
    THEN [buffer |-> buf, last |-> last, result |-> Sentinel, filtered |-> None]
    ELSE LET filtered_distance == Median(vr)
             b == DequeAppend(buf, filtered_distance, maxlen)
             smoothed_distance == SmoothedDistance(b, filtered_distance)
         IN  [buffer |-> b, last |-> Some(smoothed_distance),
              result |-> Round1(smoothed_distance),
              filtered |-> Some(filtered_distance)]

\* ----------------------------------------------- _get_single_distance()
\* Clock readings are counted in ticks of 2^-13 s (122 microseconds).  On
\* such a binary grid the float subtraction, the product with 34300 and the
\* halving are exact, and round(x, 2) rounds the exact value, ties to even.
TicksPerSecond == 2^13

\* "> 0.5": the timeout of both polling loops.
TimeoutTicks == TicksPerSecond \div 2

\* Speed of sound in cm/s.
SpeedOfSound == 34300

\* How far time.time() may have moved on since its previous call: not at
\* all, one tick, 62.5 ms, or the whole timeout.
ClockSteps == {0, 1, TicksPerSecond \div 16, TimeoutTicks}

\* Mutant: the trigger line is left high.
TriggerPattern_LeftHigh == << "LOW", "HIGH", "HIGH" >>

\* The levels written by one pulse: GPIO.LOW, GPIO.HIGH, GPIO.LOW.
TriggerPattern == << "LOW", "HIGH", "LOW" >>

\* round(n / d, 0) for n >= 0, ties to even.
RoundRatio(n, d) ==
    LET q == n \div d
        r == n % d
    IN  IF 2 * r < d THEN q
        ELSE IF 2 * r > d THEN q + 1
        ELSE IF q % 2 = 0 THEN q ELSE q + 1

\* Hundredths of a centimetre per tick, as the fraction DistNum / DistDen:
\* 34300 * 100 / (2 * TicksPerSecond) in lowest terms.
DistNum == (SpeedOfSound * 100) \div Gcd(SpeedOfSound * 100, 2 * TicksPerSecond)
DistDen == (2 * TicksPerSecond) \div Gcd(SpeedOfSound * 100, 2 * TicksPerSecond)

\* Mutant: the round trip is not halved.
PulseDistance_RoundTrip(start, end) ==
    Cm(RoundRatio((end - start) * DistNum * 2, DistDen))

\* "distance = (pulse_duration * 34300) / 2; return round(distance, 2)"
PulseDistance(start, end) ==
    Cm(RoundRatio((end - start) * DistNum, DistDen))

\* Mutant: the timeout is a whole second.
EchoHighTimedOut_Late(start_reading, since) ==
    start_reading - since > 2 * TimeoutTicks

\* Mutant: the two readings are subtracted the wrong way round.
EchoHighTimedOut_Swapped(start_reading, since) ==
    since - start_reading > TimeoutTicks

\* "if pulse_start - timeout_start > 0.5"
EchoHighTimedOut(start_reading, since) == start_reading - since > TimeoutTicks

\* Mutant: the timeout of the second loop is a whole second.
EchoLowTimedOut_Late(end_reading, since) ==
    end_reading - since > 2 * TimeoutTicks

\* "if pulse_end - timeout_end > 0.5"
EchoLowTimedOut(end_reading, since) == end_reading - since > TimeoutTicks

\* ------------------------------------------- the same arithmetic on doubles
\* Clock readings that are decimal literals (1.0001) are not on a binary grid:
\* the double nearest to 1.0001 is 1 + m * 2^-52 with m an integer.  The
\* numbers involved need 54 bits, so they are kept as sequences of limbs in
\* base 10^4, least significant limb first, without leading zero limbs.
BigBase == 10^4

\* a * k + carry, for a small k
RECURSIVE BigMulSmall(_, _, _)
BigMulSmall(a, k, carry) ==
    IF a = << >>
    THEN IF carry = 0 THEN << >>
         ELSE << carry % BigBase >> \o BigMulSmall(<< >>, k, carry \div BigBase)
    ELSE LET v == Head(a) * k + carry
         IN  << v % BigBase >> \o BigMulSmall(Tail(a), k, v \div BigBase)

\* 2^n
RECURSIVE BigPow2(_)
BigPow2(n) == IF n = 0 THEN << 1 >> ELSE BigMulSmall(BigPow2(n - 1), 2, 0)

\* a < b
RECURSIVE BigLess(_, _)
BigLess(a, b) ==
    IF Len(a) # Len(b) THEN Len(a) < Len(b)
    ELSE IF a = << >> THEN FALSE
    ELSE IF a[Len(a)] # b[Len(b)] THEN a[Len(a)] < b[Len(b)]
    ELSE BigLess(SubSeq(a, 1, Len(a) - 1), SubSeq(b, 1, Len(b) - 1))

\* The double nearest to 1.0001 is 1 + ExampleEndUlps * 2^-52: 2^52 / 10^4,
\* rounded to the nearest integer (dividing by the base drops the low limb).
ExampleEndUlps ==
    LET p == BigPow2(52)
    IN  IF 2 * Head(p) < BigBase THEN Tail(p) ELSE BigMulSmall(Tail(p), 1, 1)

\* pulse_end - pulse_start for the readings 1.0 and 1.0001, in units of
\* 2^-52 s: both lie in [1, 2], so the float subtraction is exact.
ExampleDurationUlps == ExampleEndUlps

\* fl(pulse_duration * 34300), in units of 2^-52 cm.  The exact product lies
\* between 2^53 and 2^54 there, so the double keeps even integers only: an
\* odd product is a tie and goes to the neighbour that is a multiple of 4.
FloatProductUlps(duration) ==
    LET p == BigMulSmall(duration, SpeedOfSound, 0)
    IN  IF BigLess(p, BigPow2(53)) \/ Head(p) % 2 = 0 THEN p
        ELSE IF Head(p) % 4 = 1 THEN << Head(p) - 1 >> \o Tail(p)
        ELSE BigMulSmall(p, 1, 1)

\* round(x / 2, 2) in hundredths of a centimetre, for x = p * 2^-52 cm: the
\* h with h - 1/2 < 100 * p / 2^53 < h + 1/2 (halving a double is exact and
\* round() rounds the exact value of its argument).
FloatRound2(p) ==
    CHOOSE h \in 1..400 :
        /\ BigLess(BigMulSmall(BigPow2(52), 2 * h - 1, 0), BigMulSmall(p, 100, 0))
        /\ BigLess(BigMulSmall(p, 100, 0), BigMulSmall(BigPow2(52), 2 * h + 1, 0))

\* What _get_single_distance() returns for pulse_start = 1.0 and
\* pulse_end = 1.0001, in hundredths of a centimetre.
ExampleDistance == FloatRound2(FloatProductUlps(ExampleDurationUlps))

\* The GPIO side after _initialize_sensor: the trigger pin was driven low.
PulseConstructed ==
    /\ ppc = "idle"
    /\ pulses = 0
    /\ trig_writes = << "LOW" >>
    /\ pulse_base = 1
    /\ echo = "LOW"
    /\ echo_polls = 0
    /\ now = 0
    /\ timeout_start = 0
    /\ pulse_start = 0
    /\ timeout_end = 0
    /\ pulse_end = 0
    /\ pulse_result = None
    /\ low_stamp = 0
    /\ high_stamp = 0
    /\ waited_low = FALSE
    /\ pulse_faulted = FALSE

\* ------------------------------------------------------- other components
\* get_distance_with_quality() is not being executed.
QualityIdle ==
    /\ qpc = "idle"
    /\ quality = "none"
    /\ quality_distance = None
    /\ quality_calls = 0

\* No ServoMotor exists yet.
ServoNew ==
    /\ servo_pc = "new"
    /\ locked_angle = 0
    /\ unlocked_angle = 0
    /\ is_locked = FALSE
    /\ pwm = "none"
    /\ duty_count = 0
    /\ last_duty = None
    /\ last_angle = None
    /\ servo_log = << >>

\* No component derived from BaseElectronicsComponent exists yet.
BaseNew ==
    /\ base_pc = "new"
    /\ is_initialized = FALSE
    /\ gpio_pins_used = {}
    /\ cleanup_calls = 0
    /\ cleanup_runs = 0
    /\ pin_resets = 0
    /\ base_raised = "none"

\* run() has not been called.
RunNotStarted ==
    /\ rpc = "start"
    /\ lcd_made = FALSE
    /\ sensor_made = FALSE
    /\ lcd_cleanups = 0
    /\ sensor_cleanups = 0
    /\ gpio_cleanups = 0
    /\ iterations = 0
    /\ distance = None
    /\ lcd_text = << "", << >> >>
    /\ pending = "none"

\* The stepper motor after _initialize_motor: all four pins LOW.
StepperAtRest ==
    /\ step_dir = "none"
    /\ step_j = 0
    /\ step_i = 0
    /\ coils = << 0, 0, 0, 0 >>
    /\ patterns = << >>

ComponentsIdle ==
    /\ QualityIdle
    /\ ServoNew
    /\ BaseNew
    /\ RunNotStarted
    /\ StepperAtRest

\* ------------------------------------------------------------------- Init
\* UltrasonicSensor.__init__
Init ==
    /\ sample_count \in 1..MaxSampleCount
    /\ filter_size \in 1..MaxFilterSize
    /\ outlier_threshold \in OutlierThresholds
    /\ readings_buffer = << >>
    /\ last_stable_reading = None
    /\ pc = "idle"
    /\ samples_taken = 0
    /\ valid_readings = << >>
    /\ reading = Sentinel
    /\ outlier = FALSE
    /\ positive_count = 0
    /\ result = None
    /\ filtered_log = << >>
    /\ pre_buffer = << >>
    /\ pre_last = None
    /\ fault = "none"
    /\ escaped = FALSE
    /\ PulseConstructed
    /\ ComponentsIdle

\* ---------------------------------------------------------------- actions
\* get_distance() is entered: valid_readings = [].
GetDistanceBegin ==
    /\ pc = "idle"
    /\ Len(filtered_log) < MaxCalls
    /\ pc' = "sampling"
    /\ valid_readings' = << >>
    /\ samples_taken' = 0
    /\ positive_count' = 0
    /\ outlier' = FALSE
    /\ pre_buffer' = readings_buffer
    /\ pre_last' = last_stable_reading
    /\ fault' = "none"
    /\ UNCHANGED << config, readings_buffer, last_stable_reading, reading,
                    result, filtered_log, escaped >>
    /\ UNCHANGED << pulse_vars, component_vars >>

\* The body of one iteration of "for _ in range(self.sample_count * 2)" up
\* to the break test, for the raw sample r: the new valid_readings, the
\* _is_outlier result and whether the loop breaks.
LoopBody(r) ==
    LET valid == IsValidReading(r)
        out == IF valid THEN IsOutlier(r, last_stable_reading, outlier_threshold)
               ELSE FALSE
        vr == IF valid /\ ~out THEN Append(valid_readings, r) ELSE valid_readings
    IN  [outlier |-> out, valid_readings |-> vr,
         stop |-> valid /\ EnoughReadings(vr, sample_count)]

\* The locals after one iteration with raw sample r.
Sampled(r) ==
    /\ pc = "sampling"
    /\ samples_taken < 2 * sample_count
    /\ reading' = r
    /\ outlier' = LoopBody(r).outlier
    /\ valid_readings' = LoopBody(r).valid_readings
    /\ samples_taken' = samples_taken + 1
    /\ positive_count' = IF r > 0 THEN positive_count + 1 ELSE positive_count
    /\ UNCHANGED << config, readings_buffer, last_stable_reading,
                    filtered_log, pre_buffer, pre_last >>
    /\ UNCHANGED << pulse_vars, component_vars >>

\* An exception reaches the except clause of get_distance().
Caught ==
    /\ pc' = "idle"
    /\ result' = IF GetDistanceOnFault.raised THEN None
                 ELSE Some(GetDistanceOnFault.value)
    /\ escaped' = GetDistanceOnFault.raised

\* The loop goes on to its next iteration, or ends.
Continue(r) ==
    /\ pc' = IF LoopBody(r).stop \/ samples_taken + 1 >= 2 * sample_count
             THEN "filter" ELSE "sampling"
    /\ UNCHANGED << result, escaped >>

\* One iteration of the sampling loop in which nothing raises.
SampleStep(r) ==
    /\ Sampled(r)
    /\ Continue(r)
    /\ fault' = "none"

\* One iteration in which a GPIO or clock call raises inside
\* _get_single_distance().
SampleStepPulseFault ==
    /\ Sampled(SingleDistanceOnFault.value)
    /\ fault' = "pulse"
    /\ IF SingleDistanceOnFault.raised THEN Caught
       ELSE Continue(SingleDistanceOnFault.value)

\* One iteration with raw sample r in which time.sleep(0.01) raises; the
\* sleep is reached only when the loop does not break.
SampleStepSleepFault(r) ==
    /\ ~LoopBody(r).stop
    /\ Sampled(r)
    /\ Caught
    /\ fault' = "sleep"

\* The rest of get_distance(), after the sampling loop.
GetDistanceFinish ==
    /\ pc = "filter"
    /\ pc' = "idle"
    /\ LET out == GetDistanceOutcome(valid_readings, readings_buffer,
                                      last_stable_reading, filter_size)
       IN  /\ readings_buffer' = out.buffer
           /\ last_stable_reading' = out.last
           /\ result' = Some(out.result)
           /\ filtered_log' = filtered_log \o out.filtered
    /\ UNCHANGED << config, samples_taken, valid_readings, reading, outlier,
                    positive_count, pre_buffer, pre_last, fault, escaped >>
    /\ UNCHANGED << pulse_vars, component_vars >>

Next ==
    \/ GetDistanceBegin
    \/ \E r \in SingleDistanceResults : SampleStep(r)
    \/ SampleStepPulseFault
    \/ \E r \in SingleDistanceResults : SampleStepSleepFault(r)
    \/ GetDistanceFinish

Spec == Init /\ [][Next]_vars

\* ------------------------------------- first measurement of a cold sensor
\* test_get_distance_successful: UltrasonicSensor(sample_count=3) with the
\* default filter_size, raw samples around 25 cm, calls on a cold sensor.

\* sample_count of test_get_distance_successful.
ExampleSampleCount == 3

\* Default filter_size of the constructor.
DefaultFilterSize == 10

\* Raw samples: the sentinel, 24.5, 25.0 and 25.5 cm.
ColdSamples == {Sentinel, Cm(2450), Cm(2500), Cm(2550)}

InitFirstCall ==
    /\ sample_count \in 1..ExampleSampleCount
    /\ filter_size = DefaultFilterSize
    /\ outlier_threshold \in OutlierThresholds
    /\ readings_buffer = << >>
    /\ last_stable_reading = None
    /\ pc = "idle"
    /\ samples_taken = 0
    /\ valid_readings = << >>
    /\ reading = Sentinel
    /\ outlier = FALSE
    /\ positive_count = 0
    /\ result = None
    /\ filtered_log = << >>
    /\ pre_buffer = << >>
    /\ pre_last = None
    /\ fault = "none"
    /\ escaped = FALSE
    /\ PulseConstructed
    /\ ComponentsIdle

\* get_distance() is called on a sensor that has no reference yet.
GetDistanceBeginCold ==
    /\ last_stable_reading = None
    /\ GetDistanceBegin

NextFirstCall ==
    \/ GetDistanceBeginCold
    \/ \E r \in ColdSamples : SampleStep(r)
    \/ GetDistanceFinish

SpecFirstCall == InitFirstCall /\ [][NextFirstCall]_vars

\* ------------------------------------------- _is_outlier called directly
\* test_outlier_detection sets last_stable_reading and readings_buffer by
\* hand and calls _is_outlier; this specification does the same.

\* Candidates 20.0, 20.5, ..., 31.0 cm.
OutlierCandidates == {Cm(50 * k) : k \in 40..62}

\* References: none, 25.0 cm and 27.5 cm.
OutlierReferences == {None, Some(Cm(2500)), Some(Cm(2750))}

\* The buffer of the test, [24.0, 25.0, 26.0, ...], cut to n values.
TestBuffer(n) == [k \in 1..n |-> Cm(2300 + 100 * k)]

InitOutlier ==
    /\ sample_count = 1
    /\ filter_size = MaxFilterSize
    /\ outlier_threshold \in OutlierThresholds
    /\ readings_buffer \in {TestBuffer(n) : n \in 0..MaxFilterSize}
    /\ last_stable_reading \in OutlierReferences
    /\ pc = "is_outlier"
    /\ samples_taken = 0
    /\ valid_readings = << >>
    /\ reading \in OutlierCandidates
    /\ outlier = FALSE
    /\ positive_count = 0
    /\ result = None
    /\ filtered_log = << >>
    /\ pre_buffer = << >>
    /\ pre_last = None
    /\ fault = "none"
    /\ escaped = FALSE
    /\ PulseConstructed
    /\ ComponentsIdle

\* sensor._is_outlier(reading)
IsOutlierCall ==
    /\ pc = "is_outlier"
    /\ pc' = "is_outlier_done"
    /\ outlier' = IsOutlier(reading, last_stable_reading, outlier_threshold)
    /\ UNCHANGED << config, readings_buffer, last_stable_reading, samples_taken,
                    valid_readings, reading, positive_count, result,
                    filtered_log, pre_buffer, pre_last, fault, escaped >>
    /\ UNCHANGED << pulse_vars, component_vars >>

NextOutlier == IsOutlierCall

SpecOutlier == InitOutlier /\ [][NextOutlier]_vars

\* ------------------------------------------------ one pulse, step by step
InitPulse ==
    /\ sample_count = 1
    /\ filter_size = 1
    /\ outlier_threshold \in OutlierThresholds
    /\ readings_buffer = << >>
    /\ last_stable_reading = None
    /\ pc = "idle"
    /\ samples_taken = 0
    /\ valid_readings = << >>
    /\ reading = Sentinel
    /\ outlier = FALSE
    /\ positive_count = 0
    /\ result = None
    /\ filtered_log = << >>
    /\ pre_buffer = << >>
    /\ pre_last = None
    /\ fault = "none"
    /\ escaped = FALSE
    /\ PulseConstructed
    /\ ComponentsIdle

\* _get_single_distance() is entered: GPIO.output(trig, LOW); sleep.  No
\* more than limit calls are followed.
PulseBeginWithin(limit) ==
    /\ ppc \in {"idle", "done", "faulted"}
    /\ pulses < limit
    /\ pulses' = pulses + 1
    /\ pulse_base' = Len(trig_writes)
    /\ trig_writes' = Append(trig_writes, TriggerPattern[1])
    /\ ppc' = "settle"
    /\ echo_polls' = 0
    /\ waited_low' = FALSE
    /\ pulse_result' = None
    \* the locals of the previous call are gone
    /\ timeout_start' = 0
    /\ pulse_start' = 0
    /\ timeout_end' = 0
    /\ pulse_end' = 0
    /\ low_stamp' = 0
    /\ high_stamp' = 0
    /\ UNCHANGED << echo, now, pulse_faulted >>
    /\ UNCHANGED << sensor_vars, component_vars >>

PulseBegin == PulseBeginWithin(MaxPulses)

\* GPIO.output(trig, HIGH); sleep.
TrigHigh ==
    /\ ppc = "settle"
    /\ trig_writes' = Append(trig_writes, TriggerPattern[2])
    /\ ppc' = "pulse"
    /\ UNCHANGED << pulses, pulse_base, echo, echo_polls, now, timeout_start,
                    pulse_start, timeout_end, pulse_end, pulse_result,
                    low_stamp, high_stamp, waited_low, pulse_faulted >>
    /\ UNCHANGED << sensor_vars, component_vars >>

\* GPIO.output(trig, LOW).
TrigLow ==
    /\ ppc = "pulse"
    /\ trig_writes' = Append(trig_writes, TriggerPattern[3])
    /\ ppc' = "triggered"
    /\ UNCHANGED << pulses, pulse_base, echo, echo_polls, now, timeout_start,
                    pulse_start, timeout_end, pulse_end, pulse_result,
                    low_stamp, high_stamp, waited_low, pulse_faulted >>
    /\ UNCHANGED << sensor_vars, component_vars >>

\* "pulse_start = time.time(); timeout_start = pulse_start"
StampStart(dt) ==
    /\ ppc = "triggered"
    /\ now' = now + dt
    /\ pulse_start' = now'
    /\ timeout_start' = now'
    /\ low_stamp' = now'
    /\ ppc' = "wait_high"
    /\ UNCHANGED << pulses, trig_writes, pulse_base, echo, echo_polls,
                    timeout_end, pulse_end, pulse_result, high_stamp,
                    waited_low, pulse_faulted >>
    /\ UNCHANGED << sensor_vars, component_vars >>

\* One test of "while GPIO.input(echo) == GPIO.LOW" and the clock reading
\* that follows it: in the loop body when the level is LOW, after the loop
\* ("pulse_end = time.time(); timeout_end = pulse_end") when it is HIGH.
\* Iterations that stay in the loop are followed while fewer than limit reads
\* of the echo pin were made in this pulse.
PollHighWithin(level, dt, limit) ==
    /\ ppc = "wait_high"
    /\ echo' = level
    /\ echo_polls' = echo_polls + 1
    /\ now' = now + dt
    /\ IF level = "LOW"
       THEN /\ pulse_start' = now'
            /\ low_stamp' = now'
            /\ IF EchoHighTimedOut(now', timeout_start)
               THEN /\ ppc' = "done"
                    /\ pulse_result' = Some(Sentinel)
               ELSE /\ echo_polls < limit
                    /\ ppc' = "wait_high"
                    /\ UNCHANGED pulse_result
            /\ UNCHANGED << timeout_end, pulse_end, high_stamp, waited_low >>
       ELSE /\ pulse_end' = now'
            /\ timeout_end' = now'
            /\ high_stamp' = now'
            /\ waited_low' = TRUE
            /\ ppc' = "wait_low"
            /\ UNCHANGED << pulse_start, low_stamp, pulse_result >>
    /\ UNCHANGED << pulses, trig_writes, pulse_base, timeout_start, pulse_faulted >>
    /\ UNCHANGED << sensor_vars, component_vars >>

PollHigh(level, dt) == PollHighWithin(level, dt, MaxPolls)

\* One test of "while GPIO.input(echo) == GPIO.HIGH": the loop body with its
\* clock reading when the level is HIGH, the distance computation when it is
\* LOW (no clock reading then, dt is 0).
PollLowWithin(level, dt, limit) ==
    /\ ppc = "wait_low"
    /\ echo' = level
    /\ echo_polls' = echo_polls + 1
    /\ IF level = "HIGH"
       THEN /\ now' = now + dt
            /\ pulse_end' = now'
            /\ high_stamp' = now'
            /\ IF EchoLowTimedOut(now', timeout_end)
               THEN /\ ppc' = "done"
                    /\ pulse_result' = Some(Sentinel)
               ELSE /\ echo_polls < limit
                    /\ ppc' = "wait_low"
                    /\ UNCHANGED pulse_result
       ELSE /\ dt = 0
            /\ ppc' = "done"
            /\ pulse_result' = Some(PulseDistance(pulse_start, pulse_end))
            /\ UNCHANGED << now, pulse_end, high_stamp >>
    /\ UNCHANGED << pulses, trig_writes, pulse_base, timeout_start, pulse_start,
                    timeout_end, low_stamp, waited_low, pulse_faulted >>
    /\ UNCHANGED << sensor_vars, component_vars >>

PollLow(level, dt) == PollLowWithin(level, dt, MaxPolls)

\* A GPIO or clock call raises: "except Exception: return -1.0".
PulseFault ==
    /\ ppc \in {"settle", "pulse", "triggered", "wait_high", "wait_low"}
    /\ ppc' = "faulted"
    /\ pulse_result' = Some(SingleDistanceOnFault.value)
    /\ pulse_faulted' = TRUE
    /\ UNCHANGED << pulses, trig_writes, pulse_base, echo, echo_polls, now,
                    timeout_start, pulse_start, timeout_end, pulse_end,
                    low_stamp, high_stamp, waited_low >>
    /\ UNCHANGED << sensor_vars, component_vars >>

NextPulse ==
    \/ PulseBegin
    \/ TrigHigh
    \/ TrigLow
    \/ \E dt \in ClockSteps : StampStart(dt)
    \/ \E level \in {"LOW", "HIGH"}, dt \in ClockSteps : PollHigh(level, dt)
    \/ \E level \in {"LOW", "HIGH"}, dt \in ClockSteps : PollLow(level, dt)
    \/ PulseFault

SpecPulse == InitPulse /\ [][NextPulse]_vars

\* -------------------------------------------- a step change in the distance
\* A warm sensor whose raw pulses all return the same positive value from
\* now on, measured again and again (the loop of main.run()).
StepValue == Cm(3000)

\* last_stable_reading when the step happens: 20.0, 25.0 or 27.5 cm, with
\* that one value in the history.
StepReferences == {Cm(2000), Cm(2500), Cm(2750)}

InitStepChange ==
    /\ sample_count \in 1..MaxSampleCount
    /\ filter_size \in 1..MaxFilterSize
    /\ outlier_threshold \in OutlierThresholds
    /\ \E l \in StepReferences :
          /\ readings_buffer = << l >>
          /\ last_stable_reading = Some(l)
          /\ pre_buffer = << l >>
          /\ pre_last = Some(l)
    /\ pc = "idle"
    /\ samples_taken = 0
    /\ valid_readings = << >>
    /\ reading = Sentinel
    /\ outlier = FALSE
    /\ positive_count = 0
    /\ result = None
    /\ filtered_log = << >>
    /\ fault = "none"
    /\ escaped = FALSE
    /\ PulseConstructed
    /\ ComponentsIdle

NextStepChange ==
    \/ GetDistanceBegin
    \/ SampleStep(StepValue)
    \/ GetDistanceFinish

\* The caller keeps calling and every started call runs on.
SpecStepChange ==
    InitStepChange /\ [][NextStepChange]_vars /\ WF_vars(NextStepChange)

\* ------------------------------- one get_distance() call, pulse by pulse
\* The sampling loop of get_distance() with each _get_single_distance()
\* executed step by step, under a clock that keeps advancing: every reading
\* is a quarter of a second later than the one before, so that a loop sees
\* 0.25 s, exactly 0.5 s (no timeout yet) and 0.75 s.  No call raises.
AdvancingSteps == {TimeoutTicks \div 2}

\* More reads of the echo pin than one pulse can make under such a clock
\* (each loop times out within TimeoutTicks \div step + 1 iterations).
PollLimit == 2 * (TimeoutTicks \div (TimeoutTicks \div 2) + 2)

\* More pulses than one call can make.
PulseLimit == 2 * MaxSampleCount + 2

InitMeasure ==
    /\ sample_count \in 1..MaxSampleCount
    /\ filter_size = 1
    /\ outlier_threshold = Cm(500)
    /\ readings_buffer = << >>
    /\ last_stable_reading = None
    /\ pc = "idle"
    /\ samples_taken = 0
    /\ valid_readings = << >>
    /\ reading = Sentinel
    /\ outlier = FALSE
    /\ positive_count = 0
    /\ result = None
    /\ filtered_log = << >>
    /\ pre_buffer = << >>
    /\ pre_last = None
    /\ fault = "none"
    /\ escaped = FALSE
    /\ PulseConstructed
    /\ ComponentsIdle

\* The one call that is followed.
MeasureBegin == pulses = 0 /\ GetDistanceBegin

\* "reading = self._get_single_distance()": the call.
MeasurePulseBegin ==
    /\ pc = "sampling"
    /\ pulses = samples_taken
    /\ PulseBeginWithin(PulseLimit)

\* "reading = self._get_single_distance()": the return value reaches the
\* loop body.
MeasureSample ==
    /\ ppc \in {"done", "faulted"}
    /\ pulses = samples_taken + 1
    /\ SampleStep(pulse_result[1])

NextMeasure ==
    \/ MeasureBegin
    \/ MeasurePulseBegin
    \/ TrigHigh
    \/ TrigLow
    \/ \E dt \in AdvancingSteps : StampStart(dt)
    \/ \E level \in {"LOW", "HIGH"}, dt \in AdvancingSteps :
          PollHighWithin(level, dt, PollLimit)
    \/ \E dt \in AdvancingSteps : PollLowWithin("HIGH", dt, PollLimit)
    \/ PollLowWithin("LOW", 0, PollLimit)
    \/ MeasureSample
    \/ GetDistanceFinish

\* Every step of the program that can be taken is taken.
SpecMeasure == InitMeasure /\ [][NextMeasure]_vars /\ WF_vars(NextMeasure)

\* ------------------------------------------- get_distance_with_quality()
\* n * (n - 1) * statistics.variance(buf), in units of (0.005 cm)^2: with
\* d[i] = buf[i] - buf[1], n * sum(d[i]^2) - sum(d[i])^2.  The history holds
\* medians, which are whole multiples of 0.005 cm.
VarianceTimes(buf) ==
    LET n == Len(buf)
        d == [i \in 1..n |-> (buf[i] - buf[1]) \div (Scale \div 2)]
        sq == [i \in 1..n |-> d[i] * d[i]]
    IN  n * SeqSum(sq) - SeqSum(d) * SeqSum(d)

\* 1 cm^2 in units of (0.005 cm)^2.
SquareCm == (Cm(100) \div (Scale \div 2)) * (Cm(100) \div (Scale \div 2))

\* "variance < 0.5" and "variance < 2.0"
VarianceQuality(buf) ==
    LET n == Len(buf)
    IN  IF 2 * VarianceTimes(buf) < SquareCm * n * (n - 1) THEN "excellent"
        ELSE IF VarianceTimes(buf) < 2 * SquareCm * n * (n - 1) THEN "good"
        ELSE "fair"

\* Mutant: the history counts as full one value early.
QualityOf_EarlyFull(dist, buf, size) ==
    IF dist < 0 THEN "poor"
    ELSE IF Len(buf) + 1 >= size
         THEN IF Len(buf) > 1 THEN VarianceQuality(buf) ELSE "good"
    ELSE IF Len(buf) >= 3 THEN "fair"
    ELSE "poor"

\* The quality get_distance_with_quality() returns with the distance dist,
\* for the history buf and filter_size size.
QualityOf(dist, buf, size) ==
    IF dist < 0 THEN "poor"
    ELSE IF Len(buf) >= size
         THEN IF Len(buf) > 1 THEN VarianceQuality(buf) ELSE "good"
    ELSE IF Len(buf) >= 3 THEN "fair"
    ELSE "poor"

\* Raw samples of this specification: a failed pulse, 25.0 and 27.0 cm.  The
\* medians are 25.0, 26.0 and 27.0; the variance of 25.0 and 26.0 is exactly
\* 0.5, that of 25.0 and 27.0 exactly 2.0.
QualitySamples == {Sentinel, Cm(2500), Cm(2700)}

InitQuality ==
    /\ sample_count = 2
    /\ filter_size \in 1..(MaxFilterSize + 1)
    /\ outlier_threshold = Cm(500)
    /\ readings_buffer = << >>
    /\ last_stable_reading = None
    /\ pc = "idle"
    /\ samples_taken = 0
    /\ valid_readings = << >>
    /\ reading = Sentinel
    /\ outlier = FALSE
    /\ positive_count = 0
    /\ result = None
    /\ filtered_log = << >>
    /\ pre_buffer = << >>
    /\ pre_last = None
    /\ fault = "none"
    /\ escaped = FALSE
    /\ PulseConstructed
    /\ ComponentsIdle

\* get_distance_with_quality() is entered.  Calls are followed until the
\* history has been full once and has dropped its oldest value once.
QualityBegin ==
    /\ qpc = "idle"
    /\ pc = "idle"
    /\ Len(filtered_log) < MaxCalls
    /\ Len(filtered_log) <= filter_size
    /\ qpc' = "call"
    /\ quality' = "none"
    /\ quality_distance' = None
    /\ quality_calls' = 0
    /\ UNCHANGED << sensor_vars, pulse_vars, servo_vars, base_vars, run_vars,
                    stepper_vars >>

\* "distance = self.get_distance()": control is inside get_distance().
QualityCalling ==
    /\ qpc = "call"
    /\ pc # "idle"
    /\ qpc' = "measuring"
    /\ quality_calls' = quality_calls + 1
    /\ UNCHANGED << quality, quality_distance >>
    /\ UNCHANGED << sensor_vars, pulse_vars, servo_vars, base_vars, run_vars,
                    stepper_vars >>

\* get_distance() has returned: the rest of get_distance_with_quality().
QualityFinish ==
    /\ qpc = "measuring"
    /\ pc = "idle"
    /\ qpc' = "idle"
    /\ quality_distance' = result
    /\ quality' = QualityOf(result[1], readings_buffer, filter_size)
    /\ UNCHANGED quality_calls
    /\ UNCHANGED << sensor_vars, pulse_vars, servo_vars, base_vars, run_vars,
                    stepper_vars >>

NextQuality ==
    \/ QualityBegin
    \/ qpc = "call" /\ GetDistanceBegin
    \/ QualityCalling
    \/ qpc = "measuring" /\ \E r \in QualitySamples : SampleStep(r)
    \/ qpc = "measuring" /\ GetDistanceFinish
    \/ QualityFinish

SpecQuality == InitQuality /\ [][NextQuality]_vars

\* ------------------------------------------------------------ ServoMotor
\* Default min_pulse and max_pulse, in microseconds.
MinPulse == 500
MaxPulse == 2500

\* ServoMotor._map_value: int() of a non-negative quotient.
MapValue(value, in_min, in_max, out_min, out_max) ==
    ((out_max - out_min) * (value - in_min)) \div (in_max - in_min) + out_min

\* "angle = max(0, min(180, angle))"
ClampAngle(angle) ==
    IF angle < 0 THEN 0 ELSE IF angle > 180 THEN 180 ELSE angle

\* The duty cycle _set_angle computes for an angle.
DutyCycle(angle) ==
    MapValue(MapValue(ClampAngle(angle), 0, 180, MinPulse, MaxPulse), 0, 20000, 0, 100)

\* Angles given to the constructor: the defaults 0 and 90, the 45 and 135
\* of the tests, and an unlocked angle beyond the range.
LockedAngles == {0, 45}
UnlockedAngles == {90, 135, 200}

\* Mutant: _lock() moves the servo whatever is_locked says.
LockNeeded_Always(locked) == TRUE

\* "if not self.is_locked" in _lock()
LockNeeded(locked) == ~locked

\* "if self.is_locked" in _unlock()
UnlockNeeded(locked) == locked

\* Mutant: toggle() calls _lock() on a locked servo and _unlock() on an
\* unlocked one.
ToggleUnlocks_Inverted(locked) == ~locked

\* "if self.is_locked" in toggle(): whether toggle() calls _unlock()
ToggleUnlocks(locked) == locked

\* The servo after _set_angle(angle): a command only "if self.pwm".
SetAngle(angle, srv) ==
    IF srv.pwm = "active"
    THEN [srv EXCEPT !.duty_count = @ + 1,
                     !.last_duty = Some(DutyCycle(angle)),
                     !.last_angle = Some(ClampAngle(angle))]
    ELSE srv

\* The servo after _lock() and after _unlock().
LockCall(srv) ==
    IF LockNeeded(srv.is_locked)
    THEN [SetAngle(locked_angle, srv) EXCEPT !.is_locked = TRUE]
    ELSE srv

UnlockCall(srv) ==
    IF UnlockNeeded(srv.is_locked)
    THEN [SetAngle(unlocked_angle, srv) EXCEPT !.is_locked = FALSE]
    ELSE srv

ToggleCall(srv) ==
    IF ToggleUnlocks(srv.is_locked) THEN UnlockCall(srv) ELSE LockCall(srv)

\* The fields of the servo that its methods change.
Servo ==
    [is_locked |-> is_locked, pwm |-> pwm, duty_count |-> duty_count,
     last_duty |-> last_duty, last_angle |-> last_angle]

\* The servo becomes srv by a call of method.
ServoBecomes(srv, method) ==
    /\ is_locked' = srv.is_locked
    /\ pwm' = srv.pwm
    /\ duty_count' = srv.duty_count
    /\ last_duty' = srv.last_duty
    /\ last_angle' = srv.last_angle
    /\ servo_log' = (IF servo_log = << >> THEN << >>
                     ELSE << servo_log[Len(servo_log)] >>) \o
                    << [method |-> method, is_locked |-> is_locked,
                        duty_count |-> duty_count] >>
    /\ UNCHANGED << sensor_vars, pulse_vars, quality_vars, base_vars, run_vars,
                    stepper_vars >>

\* ServoMotor(locked_angle=la, unlocked_angle=ua): the fields are set,
\* is_locked = True, _setup_gpio() starts the PWM at duty cycle 0, and
\* _lock() is called.
ServoConstruct(la, ua) ==
    /\ servo_pc = "new"
    /\ servo_pc' = "ready"
    /\ locked_angle' = la
    /\ unlocked_angle' = ua
    /\ LET made == [is_locked |-> TRUE, pwm |-> "active", duty_count |-> 0,
                    last_duty |-> None, last_angle |-> None]
           srv == IF LockNeeded(made.is_locked)
                  THEN [SetAngle(la, made) EXCEPT !.is_locked = TRUE]
                  ELSE made
       IN  /\ is_locked' = srv.is_locked
           /\ pwm' = srv.pwm
           /\ duty_count' = srv.duty_count
           /\ last_duty' = srv.last_duty
           /\ last_angle' = srv.last_angle
    /\ servo_log' = << >>
    /\ UNCHANGED << sensor_vars, pulse_vars, quality_vars, base_vars, run_vars,
                    stepper_vars >>

ServoLock ==
    /\ servo_pc = "ready"
    /\ duty_count < MaxCommands
    /\ ServoBecomes(LockCall(Servo), "lock")
    /\ UNCHANGED << servo_pc, locked_angle, unlocked_angle >>

ServoUnlock ==
    /\ servo_pc = "ready"
    /\ duty_count < MaxCommands
    /\ ServoBecomes(UnlockCall(Servo), "unlock")
    /\ UNCHANGED << servo_pc, locked_angle, unlocked_angle >>

ServoToggle ==
    /\ servo_pc = "ready"
    /\ duty_count < MaxCommands
    /\ ServoBecomes(ToggleCall(Servo), "toggle")
    /\ UNCHANGED << servo_pc, locked_angle, unlocked_angle >>

\* ServoMotor.cleanup(): "if self.pwm: self.pwm.stop(); self.pwm = None"
ServoCleanup ==
    /\ servo_pc = "ready"
    /\ ServoBecomes([Servo EXCEPT !.pwm = "none"], "cleanup")
    /\ UNCHANGED << servo_pc, locked_angle, unlocked_angle >>

InitServo ==
    /\ sample_count = 1
    /\ filter_size = 1
    /\ outlier_threshold = Cm(500)
    /\ readings_buffer = << >>
    /\ last_stable_reading = None
    /\ pc = "idle"
    /\ samples_taken = 0
    /\ valid_readings = << >>
    /\ reading = Sentinel
    /\ outlier = FALSE
    /\ positive_count = 0
    /\ result = None
    /\ filtered_log = << >>
    /\ pre_buffer = << >>
    /\ pre_last = None
    /\ fault = "none"
    /\ escaped = FALSE
    /\ PulseConstructed
    /\ ComponentsIdle

NextServo ==
    \/ \E la \in LockedAngles, ua \in UnlockedAngles : ServoConstruct(la, ua)
    \/ ServoLock
    \/ ServoUnlock
    \/ ServoToggle
    \/ ServoCleanup

SpecServo == InitServo /\ [][NextServo]_vars

\* ------------------------------------------------ BaseElectronicsComponent
\* The pins a component registers: 18 and 24 in test_cleanup, 5 as the
\* trigger pin of the sensor in run().
BasePins == {5, 18, 24}

\* Mutant: cleanup() runs whether or not the component is initialized.
CleanupSkipped_Never(initialized) == FALSE

\* "if not self.is_initialized: ... return" in cleanup()
CleanupSkipped(initialized) == ~initialized

\* is_initialized after the try block of __init__: line 30 is reached only
\* when _initialize_component returned.
InitializedAfter(init_ok) == init_ok

\* BaseElectronicsComponent.__init__: _initialize_component registers the
\* pins it sets up; it either returns (init_ok) or raises after registering
\* them, and then the constructor raises RuntimeError.
BaseConstruct(init_ok, pins) ==
    /\ base_pc = "new"
    /\ base_pc' = IF init_ok THEN "constructed" ELSE "failed"
    /\ is_initialized' = InitializedAfter(init_ok)
    /\ gpio_pins_used' = pins
    /\ base_raised' = IF init_ok THEN "none" ELSE "RuntimeError"
    /\ UNCHANGED << cleanup_calls, cleanup_runs, pin_resets >>
    /\ UNCHANGED << sensor_vars, pulse_vars, quality_vars, servo_vars, run_vars,
                    stepper_vars >>

\* _register_gpio_pin(pin)
BaseRegisterPin(pin) ==
    /\ base_pc = "constructed"
    /\ gpio_pins_used' = gpio_pins_used \union {pin}
    /\ base_raised' = "none"
    /\ UNCHANGED << base_pc, is_initialized, cleanup_calls, cleanup_runs,
                    pin_resets >>
    /\ UNCHANGED << sensor_vars, pulse_vars, quality_vars, servo_vars, run_vars,
                    stepper_vars >>

\* cleanup(): skipped on a component that is not initialized; otherwise
\* _cleanup_component runs, and either raises, which cleanup() re-raises,
\* or returns, after which every registered pin is reset (a failure on one
\* pin is logged and swallowed) and is_initialized is cleared.
BaseCleanup(cleanup_ok) ==
    /\ base_pc \in {"constructed", "failed"}
    /\ cleanup_calls < MaxCleanups
    /\ cleanup_calls' = cleanup_calls + 1
    /\ IF CleanupSkipped(is_initialized)
       THEN /\ base_raised' = "none"
            /\ UNCHANGED << is_initialized, cleanup_runs, pin_resets >>
       ELSE /\ cleanup_runs' = cleanup_runs + 1
            /\ IF cleanup_ok
               THEN /\ pin_resets' = pin_resets + Cardinality(gpio_pins_used)
                    /\ is_initialized' = FALSE
                    /\ base_raised' = "none"
               ELSE /\ base_raised' = "Exception"
                    /\ UNCHANGED << is_initialized, pin_resets >>
    /\ UNCHANGED << base_pc, gpio_pins_used >>
    /\ UNCHANGED << sensor_vars, pulse_vars, quality_vars, servo_vars, run_vars,
                    stepper_vars >>

InitBase == InitServo

NextBase ==
    \/ \E init_ok \in BOOLEAN, pins \in SUBSET BasePins :
            BaseConstruct(init_ok, pins)
    \/ \E pin \in BasePins : BaseRegisterPin(pin)
    \/ \E cleanup_ok \in BOOLEAN : BaseCleanup(cleanup_ok)

SpecBase == InitBase /\ [][NextBase]_vars

\* ------------------------------------------------------------------ run()
\* What sensor.get_distance() returns to the loop: the sentinel or a
\* distance rounded to one decimal.
RunDistances == {Sentinel, Cm(500), Cm(2500), Cm(2570), Cm(40000)}

\* The second display line of one iteration: f"Dist: {distance:.1f} cm"
\* when distance >= 0, "Reading Error" otherwise.
MeasureLine(d) ==
    IF d >= 0 THEN << "Dist: ", d \div Cm(10), " cm" >> ELSE << "Reading Error" >>

\* "GPIO.cleanup()" in the finally block
FinallyGpioCleanups(n) == n + 1

\* Lines 20-23: LCD1602(...) is constructed outside the try statement; when
\* the constructor raises, the exception leaves run().
RunMakeLcd(ok) ==
    /\ rpc = "start"
    /\ IF ok
       THEN /\ rpc' = "lcd_ready"
            /\ lcd_made' = TRUE
            /\ lcd_text' = << "[STARTUP]", << "Initializing..." >> >>
            /\ UNCHANGED pending
       ELSE /\ rpc' = "propagated"
            /\ pending' = "RuntimeError"
            /\ UNCHANGED << lcd_made, lcd_text >>
    /\ UNCHANGED << sensor_made, lcd_cleanups, sensor_cleanups, gpio_cleanups,
                    iterations, distance >>
    /\ UNCHANGED << sensor_vars, pulse_vars, quality_vars, servo_vars, base_vars,
                    stepper_vars >>

\* Lines 26-34: UltrasonicSensor(...) is constructed outside the try
\* statement as well; then the ready message is written.
RunMakeSensor(ok) ==
    /\ rpc = "lcd_ready"
    /\ IF ok
       THEN /\ rpc' = "loop"
            /\ sensor_made' = TRUE
            /\ lcd_text' = << "[READY]", << "System Ready!" >> >>
            /\ UNCHANGED pending
       ELSE /\ rpc' = "propagated"
            /\ pending' = "RuntimeError"
            /\ UNCHANGED << sensor_made, lcd_text >>
    /\ UNCHANGED << lcd_made, lcd_cleanups, sensor_cleanups, gpio_cleanups,
                    iterations, distance >>
    /\ UNCHANGED << sensor_vars, pulse_vars, quality_vars, servo_vars, base_vars,
                    stepper_vars >>

\* Lines 39-50: one iteration of "while True".
RunMeasure(d) ==
    /\ rpc = "loop"
    /\ iterations < MaxIterations
    /\ iterations' = iterations + 1
    /\ distance' = Some(d)
    /\ lcd_text' = << "[MEASURE]", MeasureLine(d) >>
    /\ UNCHANGED << rpc, lcd_made, sensor_made, lcd_cleanups, sensor_cleanups,
                    gpio_cleanups, pending >>
    /\ UNCHANGED << sensor_vars, pulse_vars, quality_vars, servo_vars, base_vars,
                    stepper_vars >>

\* An exception raised inside the loop: KeyboardInterrupt, or any other
\* Exception from get_distance() or the display.
RunRaise(exception) ==
    /\ rpc = "loop"
    /\ rpc' = "handler"
    /\ pending' = exception
    /\ UNCHANGED << lcd_made, sensor_made, lcd_cleanups, sensor_cleanups,
                    gpio_cleanups, iterations, distance, lcd_text >>
    /\ UNCHANGED << sensor_vars, pulse_vars, quality_vars, servo_vars, base_vars,
                    stepper_vars >>

\* Lines 51-62: the two except clauses.
RunHandle ==
    /\ rpc = "handler"
    /\ rpc' = "finally"
    /\ lcd_text' = IF pending = "KeyboardInterrupt"
                   THEN << "[SHUTDOWN]", << "Goodbye!" >> >>
                   ELSE << "[ERROR]", << "Check logs!" >> >>
    /\ pending' = "none"
    /\ UNCHANGED << lcd_made, sensor_made, lcd_cleanups, sensor_cleanups,
                    gpio_cleanups, iterations, distance >>
    /\ UNCHANGED << sensor_vars, pulse_vars, quality_vars, servo_vars, base_vars,
                    stepper_vars >>

\* Lines 63-70: the finally block, after which run() returns.
RunFinally ==
    /\ rpc = "finally"
    /\ rpc' = "returned"
    /\ lcd_text' = << "", << >> >>
    /\ lcd_cleanups' = lcd_cleanups + 1
    /\ sensor_cleanups' = sensor_cleanups + 1
    /\ gpio_cleanups' = FinallyGpioCleanups(gpio_cleanups)
    /\ UNCHANGED << lcd_made, sensor_made, iterations, distance, pending >>
    /\ UNCHANGED << sensor_vars, pulse_vars, quality_vars, servo_vars, base_vars,
                    stepper_vars >>

InitRun == InitServo

NextRun ==
    \/ \E ok \in BOOLEAN : RunMakeLcd(ok)
    \/ \E ok \in BOOLEAN : RunMakeSensor(ok)
    \/ \E d \in RunDistances : RunMeasure(d)
    \/ \E exception \in {"KeyboardInterrupt", "Exception"} : RunRaise(exception)
    \/ RunHandle
    \/ RunFinally

SpecRun == InitRun /\ [][NextRun]_vars

\* ----------------------------------------------------------- StepperMotor
\* Python's x >> n, x << n and x & y on non-negative integers.
ShiftRight(x, n) == x \div (2 ^ n)
ShiftLeft(x, n) == x * (2 ^ n)

RECURSIVE BitAnd(_, _)
BitAnd(x, y) ==
    IF x = 0 \/ y = 0 THEN 0
    ELSE (x % 2) * (y % 2) + 2 * BitAnd(x \div 2, y \div 2)

\* "0x99 >> j & (0x08 >> i)": the value _step_clockwise writes to pin i.
ClockwiseValue(j, i) == BitAnd(ShiftRight(153, j), ShiftRight(8, i))

\* Mutant: the counterclockwise step shifts the word to the right.
CounterclockwiseValue_RightShift(j, i) ==
    BitAnd(ShiftRight(153, j), ShiftRight(128, i))

\* "0x99 << j & (0x80 >> i)": the value _step_counterclockwise writes.
CounterclockwiseValue(j, i) == BitAnd(ShiftLeft(153, j), ShiftRight(128, i))

\* The level a pin takes when GPIO.output is given value: any non-zero
\* value drives it HIGH.
PinLevel(value) == IF value = 0 THEN 0 ELSE 1

\* _step_clockwise() or _step_counterclockwise() is entered.
StepBegin(direction) ==
    /\ step_dir = "none"
    /\ Len(patterns) < 4 * MaxSteps
    /\ step_dir' = direction
    /\ step_j' = 0
    /\ step_i' = 0
    /\ UNCHANGED << coils, patterns >>
    /\ UNCHANGED << sensor_vars, pulse_vars, quality_vars, servo_vars, base_vars,
                    run_vars >>

\* One GPIO.output of the inner loop; after the fourth the pattern stands
\* for step_speed seconds, and after the fourth pattern the step returns.
StepWrite ==
    /\ step_dir \in {"cw", "ccw"}
    /\ LET value == IF step_dir = "cw" THEN ClockwiseValue(step_j, step_i)
                    ELSE CounterclockwiseValue(step_j, step_i)
           written == [coils EXCEPT ![step_i + 1] = PinLevel(value)]
       IN  /\ coils' = written
           /\ IF step_i < 3
              THEN /\ step_i' = step_i + 1
                   /\ UNCHANGED << step_j, step_dir, patterns >>
              ELSE /\ patterns' = Append(patterns,
                                    [direction |-> step_dir, coils |-> written])
                   /\ step_i' = 0
                   /\ IF step_j < 3
                      THEN /\ step_j' = step_j + 1
                           /\ UNCHANGED step_dir
                      ELSE /\ step_j' = 0
                           /\ step_dir' = "none"
    /\ UNCHANGED << sensor_vars, pulse_vars, quality_vars, servo_vars, base_vars,
                    run_vars >>

InitStepper == InitServo

NextStepper ==
    \/ \E direction \in {"cw", "ccw"} : StepBegin(direction)
    \/ StepWrite

SpecStepper == InitStepper /\ [][NextStepper]_vars

\* get_distance() has returned a distance, not the sentinel.
Succeeded == pc = "idle" /\ result # None /\ result # Some(Sentinel)

\* The last n elements of s (all of s if it is shorter).
LastN(s, n) == IF Len(s) <= n THEN s ELSE SubSeq(s, Len(s) - n + 1, Len(s))

\* ------------------------------------------------------------ properties

\* C1: after any sequence of get_distance() calls, with any mix of
\* successful and failed raw samples, the history buffer never holds more
\* than filter_size values.
C1_BufferBounded == Len(readings_buffer) <= filter_size

\* A full buffer has taken one more filtered value and evicted the oldest.
C1_Witness ==
    /\ pc = "idle"
    /\ Len(filtered_log) > filter_size
    /\ Len(readings_buffer) = filter_size

\* C2: between public calls (after construction and after every
\* get_distance() return) last_stable_reading is None exactly when the
\* history buffer is empty.
C2_NoneIffEmpty ==
    pc = "idle" => (last_stable_reading = None <=> readings_buffer = << >>)

\* A call has returned on a sensor whose buffer and reference are both set.
C2_Witness ==
    /\ pc = "idle"
    /\ result # None
    /\ readings_buffer # << >>
    /\ last_stable_reading # None

\* C3: the sentinel -1.0 and any raw sample <= 0 never enter the history
\* buffer: every value in the buffer is strictly positive.
C3_BufferPositive ==
    \A k \in 1..Len(readings_buffer) : readings_buffer[k] > 0

\* A call that saw failed samples among its raw samples still succeeded.
C3_Witness ==
    /\ Succeeded
    /\ positive_count < samples_taken
    /\ readings_buffer # << >>

\* C4: if every raw sample of one get_distance() call is <= 0, the call
\* returns -1.0 and leaves the buffer and last_stable_reading as they were
\* before the call.
C4_NoData ==
    (pc = "idle" /\ result # None /\ positive_count = 0)
        => /\ result = Some(Sentinel)
           /\ readings_buffer = pre_buffer
           /\ last_stable_reading = pre_last

\* A warm sensor ran a whole cycle of failed samples.
C4_Witness ==
    /\ pc = "idle"
    /\ result = Some(Sentinel)
    /\ positive_count = 0
    /\ samples_taken = 2 * sample_count
    /\ pre_buffer # << >>
    /\ readings_buffer = pre_buffer

\* C5: if exactly one raw sample of a cycle is valid and accepted and all
\* others fail, get_distance() succeeds: that sample is appended to the
\* history and a cold sensor returns it rounded to 1 decimal.
C5_SingleReading ==
    (pc = "idle" /\ result # None /\ positive_count = 1 /\ Len(valid_readings) = 1)
        => /\ readings_buffer = DequeAppend(pre_buffer, valid_readings[1], filter_size)
           /\ (pre_last = None => result = Some(Round1(valid_readings[1])))

\* C6: with a reference present, _is_outlier uses 2 * outlier_threshold
\* while the history holds fewer than 3 values and outlier_threshold once
\* it holds 3 or more.
C6_AdaptiveThreshold ==
    (pc \in {"sampling", "filter"} /\ samples_taken > 0 /\ reading > 0
        /\ last_stable_reading # None)
        => (outlier <=>
              Abs(reading - last_stable_reading[1]) >
                 (IF Len(readings_buffer) < 3 THEN 2 * outlier_threshold
                  ELSE outlier_threshold))

\* C7: within one cycle a positive raw sample classified as an outlier is
\* still appended to valid_readings while valid_readings holds fewer than 2
\* samples, and rejected once it holds 2 or more.
C7_BootstrapTolerance ==
    [][(pc = "sampling" /\ samples_taken' = samples_taken + 1
          /\ reading' > 0 /\ outlier')
        => IF Len(valid_readings) < 2
           THEN valid_readings' = Append(valid_readings, reading')
           ELSE valid_readings' = valid_readings]_vars

C9_MostRecentValues ==
    /\ readings_buffer = LastN(filtered_log, filter_size)
    /\ Len(filtered_log) > filter_size => Len(readings_buffer) = filter_size
    /\ (Succeeded /\ filter_size = 3
          /\ filtered_log = << Cm(2500), Cm(2500), Cm(2500), Cm(2500), Cm(2500) >>)
        => /\ readings_buffer = << Cm(2500), Cm(2500), Cm(2500) >>
           /\ result = Some(Cm(2500))

\* More successful calls than the buffer holds, with differing values, so
\* that the order and the evicted end both show.
C9_Witness ==
    /\ Succeeded
    /\ filter_size >= 2
    /\ Len(filtered_log) > filter_size
    /\ readings_buffer[1] # readings_buffer[Len(readings_buffer)]
    /\ filtered_log[1] # readings_buffer[1]

\* C10: the first successful get_distance() sets last_stable_reading, no
\* later step makes it None again, and every call that returns -1.0 leaves
\* last_stable_reading and the buffer as they were when the call started.
C10_NeverReverts ==
    [][/\ last_stable_reading # None => last_stable_reading' # None
       /\ (pc = "filter" /\ result' # Some(Sentinel)) => last_stable_reading' # None
       /\ (pc # "idle" /\ pc' = "idle" /\ result' = Some(Sentinel))
            => /\ last_stable_reading' = pre_last
               /\ readings_buffer' = pre_buffer]_vars

\* A warm sensor has had a call return -1.0 and is still warm.
C10_Witness ==
    /\ pc = "idle"
    /\ result = Some(Sentinel)
    /\ pre_last # None
    /\ last_stable_reading # None
    /\ readings_buffer # << >>

\* C11: get_distance() is total.  A fault in a GPIO or clock call during a
\* raw pulse makes that pulse return -1.0, which the loop treats as a failed
\* sample, and any other fault inside get_distance() makes the call return
\* -1.0; no exception leaves get_distance().
C11_Total ==
    [][/\ ~escaped'
       /\ (pc = "sampling" /\ fault' = "pulse")
            => /\ reading' = Sentinel
               /\ valid_readings' = valid_readings
               /\ pc' \in {"sampling", "filter"}
               /\ samples_taken' = samples_taken + 1
       /\ (pc = "sampling" /\ fault' = "sleep")
            => /\ pc' = "idle"
               /\ result' = Some(Sentinel)
               /\ readings_buffer' = pre_buffer
               /\ last_stable_reading' = pre_last]_vars

\* time.sleep raised in a call on a warm sensor whose loop had already
\* accepted a sample; the call returned -1.0.
C11_Witness ==
    /\ pc = "idle"
    /\ fault = "sleep"
    /\ result = Some(Sentinel)
    /\ ~escaped
    /\ valid_readings # << >>
    /\ last_stable_reading # None

\* C12: while last_stable_reading is None, _is_outlier is false for every
\* candidate, so on a cold sensor every positive raw sample is accepted into
\* valid_readings.
C12_ColdStart ==
    (pc \in {"sampling", "filter"} /\ last_stable_reading = None)
        => /\ ~outlier
           /\ Len(valid_readings) = positive_count
           /\ (samples_taken > 0 /\ reading > 0)
                => valid_readings[Len(valid_readings)] = reading

\* A cold sensor has accepted two samples further apart than the threshold.
C12_Witness ==
    /\ pc = "filter"
    /\ last_stable_reading = None
    /\ Len(valid_readings) >= 2
    /\ Abs(valid_readings[1] - valid_readings[2]) > outlier_threshold

\* C14: one get_distance() call takes at most 2 * sample_count raw samples,
\* stops sampling as soon as valid_readings reaches sample_count, and never
\* collects more than sample_count accepted samples.
C14_BoundedSampling ==
    /\ samples_taken <= 2 * sample_count
    /\ Len(valid_readings) <= sample_count
    /\ pc = "sampling" => Len(valid_readings) < sample_count

\* The loop broke early with sample_count accepted samples, after rejecting
\* or failing at least one sample.
C14_Witness ==
    /\ pc = "filter"
    /\ Len(valid_readings) = sample_count
    /\ Len(valid_readings) < samples_taken
    /\ samples_taken < 2 * sample_count

\* C20 as stated: after every successful get_distance(), last_stable_reading
\* equals the value the call returned.
C20_ReferenceIsReturnValue ==
    Succeeded => last_stable_reading = result

\* C20 amended: after every successful get_distance() the value returned is
\* last_stable_reading rounded to 1 decimal (last_stable_reading keeps the
\* unrounded smoothed distance), and last_stable_reading, unchanged until the
\* next call, is the reference of that call's outlier test.
C20_ReferenceRoundsToReturnValue ==
    /\ Succeeded
         => /\ last_stable_reading # None
            /\ result = Some(Round1(last_stable_reading[1]))
    /\ pc \in {"sampling", "filter"}
         => /\ last_stable_reading = pre_last
            /\ (samples_taken > 0 /\ reading > 0 /\ pre_last # None)
                 => (outlier <=> Abs(reading - pre_last[1]) > outlier_threshold)

\* A call returned a rounded value that differs from the stored reference,
\* which itself differs from the filtered distance just appended.
C20_Witness ==
    /\ Succeeded
    /\ last_stable_reading # result
    /\ last_stable_reading # Some(readings_buffer[Len(readings_buffer)])
    /\ Round1(last_stable_reading[1]) # Round1(readings_buffer[Len(readings_buffer)])

\* C13: with a reference present and at least 3 values in the history,
\* _is_outlier(x) is true exactly when x lies more than outlier_threshold
\* above or below last_stable_reading; a deviation equal to the threshold is
\* not an outlier.  Threshold 3.0, reference 25.0: 27.0 is accepted, 30.0
\* rejected.
C13_StrictSymmetricThreshold ==
    (pc = "is_outlier_done" /\ last_stable_reading # None
        /\ Len(readings_buffer) >= 3)
        => LET ref == last_stable_reading[1]
           IN  /\ outlier <=> (reading - ref > outlier_threshold
                                 \/ ref - reading > outlier_threshold)
               /\ (reading = ref + outlier_threshold
                     \/ reading = ref - outlier_threshold) => ~outlier
               /\ (outlier_threshold = Cm(300) /\ ref = Cm(2500))
                    => /\ reading = Cm(2700) => ~outlier
                       /\ reading = Cm(3000) => outlier
                       /\ reading = Cm(2300) => ~outlier
                       /\ reading = Cm(2000) => outlier

\* _is_outlier was called with a candidate exactly threshold below the
\* reference, with 3 values in the history, and accepted it.
C13_Witness ==
    /\ pc = "is_outlier_done"
    /\ Len(readings_buffer) >= 3
    /\ last_stable_reading = Some(Cm(2500))
    /\ outlier_threshold = Cm(300)
    /\ reading = Cm(2200)
    /\ ~outlier

\* The k-th smallest value of s, by counting.
KthSmallest(s, k) ==
    CHOOSE x \in {s[i] : i \in 1..Len(s)} :
        /\ Cardinality({i \in 1..Len(s) : s[i] < x}) < k
        /\ Cardinality({i \in 1..Len(s) : s[i] <= x}) >= k

\* The median of s: the middle value, or halfway between the two middle ones.
MiddleValue(s) ==
    (KthSmallest(s, (Len(s) + 1) \div 2) + KthSmallest(s, (Len(s) + 2) \div 2)) \div 2

\* C19: when two or more samples are accepted in a cycle, the value appended
\* to the history is their median, and the first successful call returns
\* that median rounded to 1 decimal and sets last_stable_reading to it; with
\* sample_count = 3 and raw samples 25.0, 24.5, 25.5 on a cold sensor the
\* history becomes [25.0] and the call returns 25.0.
C19_MedianOnFirstCall ==
    /\ (Succeeded /\ Len(valid_readings) >= 2)
         => /\ readings_buffer = << MiddleValue(valid_readings) >>
            /\ last_stable_reading = Some(MiddleValue(valid_readings))
            /\ result = Some(Round1(MiddleValue(valid_readings)))
    /\ (Succeeded /\ sample_count = 3
          /\ valid_readings = << Cm(2500), Cm(2450), Cm(2550) >>)
         => /\ readings_buffer = << Cm(2500) >>
            /\ result = Some(Cm(2500))

\* The first call of a cold sensor with sample_count = 3 took 25.0, 24.5 and
\* 25.5 and returned.
C19_Witness ==
    /\ Succeeded
    /\ sample_count = 3
    /\ pre_last = None
    /\ samples_taken = 3
    /\ valid_readings = << Cm(2500), Cm(2450), Cm(2550) >>
    /\ readings_buffer = << Cm(2500) >>

\* C15: once the echo line has only been read LOW and a clock reading lies
\* more than 0.5 s after the post-trigger timestamp, _get_single_distance()
\* has returned -1.0 and has never entered the wait-for-low loop.
C15_EchoNeverHigh ==
    (/\ echo_polls > 0
     /\ ~waited_low
     /\ echo = "LOW"
     /\ low_stamp - timeout_start > TimeoutTicks)
    => (ppc = "done" /\ pulse_result = Some(Sentinel)
        /\ timeout_end = 0 /\ pulse_end = 0)

C15_Witness ==
    /\ ppc = "done"
    /\ echo_polls > 1
    /\ ~waited_low
    /\ echo = "LOW"
    /\ low_stamp - timeout_start > TimeoutTicks
    /\ pulse_result = Some(Sentinel)

\* C16: once the echo line has been read HIGH and a clock reading taken with
\* the line still high lies more than 0.5 s after the timestamp that opened
\* the wait-for-low loop, _get_single_distance() has returned -1.0: no
\* distance is computed from the pulse.
C16_EchoStuckHigh ==
    (/\ waited_low
     /\ echo = "HIGH"
     /\ high_stamp - timeout_end > TimeoutTicks)
    => (ppc = "done" /\ pulse_result = Some(Sentinel))

C16_Witness ==
    /\ ppc = "done"
    /\ waited_low
    /\ echo = "HIGH"
    /\ high_stamp - timeout_end > TimeoutTicks
    /\ pulse_result = Some(Sentinel)

\* C17: a pulse that ends because the echo line is read LOW in the
\* wait-for-low loop returns (pulse_end - pulse_start) * 34300 / 2 rounded to
\* 2 decimals (the hundredth nearest to the exact value, the even one on a
\* tie), pulse_start being the clock reading that followed the last LOW read
\* (the post-trigger timestamp if there was none) and pulse_end the reading
\* that followed the last HIGH read; for the readings 1.0 and 1.0001 the
\* result is 1.71.
C17_DistanceFormula ==
    /\ (ppc = "done" /\ waited_low /\ echo = "LOW") =>
        /\ pulse_result # None
        /\ pulse_result # Some(Sentinel)
        /\ LET ticks == high_stamp - low_stamp
               h == pulse_result[1] \div Scale
               err == Abs(h * DistDen - ticks * DistNum)
           IN  /\ pulse_result[1] = Cm(h)
               /\ 2 * err <= DistDen
               /\ (2 * err = DistDen => h % 2 = 0)
    /\ ExampleDistance = 171

C17_Witness ==
    /\ ppc = "done"
    /\ waited_low
    /\ echo = "LOW"
    /\ low_stamp # timeout_start
    /\ high_stamp # timeout_end
    /\ high_stamp - low_stamp = TicksPerSecond \div 16
    /\ pulse_result = Some(Cm(107188))

\* C18: the trigger pin is written LOW once at construction and then, pulse
\* after pulse, LOW, HIGH, LOW in that order; the echo pin is read in a
\* pulse only after the three writes of that pulse.
C18_TriggerOrder ==
    LET written == SubSeq(trig_writes, pulse_base + 1, Len(trig_writes))
        pattern == << "LOW", "HIGH", "LOW" >>
    IN  /\ pulse_base >= 1
        /\ trig_writes[1] = "LOW"
        /\ Len(written) <= 3
        /\ written = SubSeq(pattern, 1, Len(written))
        /\ pulses > 0 => written # << >>
        /\ echo_polls > 0 => written = pattern
        /\ ppc \in {"triggered", "wait_high", "wait_low", "done"} => written = pattern
        /\ ~pulse_faulted =>
              \A i \in 2..Len(trig_writes) :
                  trig_writes[i] = pattern[((i - 2) % 3) + 1]

C18_Witness ==
    /\ pulses = 2
    /\ ppc = "done"
    /\ ~pulse_faulted
    /\ echo_polls > 0
    /\ trig_writes = << "LOW", "LOW", "HIGH", "LOW", "LOW", "HIGH", "LOW" >>

\* C21: on a warm sensor whose raw pulses all return the same positive value
\* v, get_distance() does not return -1.0 forever: some call returns a
\* distance and moves last_stable_reading closer to v than it was.
C21_NotStarved ==
    <>(/\ Succeeded
       /\ last_stable_reading # None
       /\ pre_last # None
       /\ Abs(StepValue - last_stable_reading[1]) < Abs(StepValue - pre_last[1]))

\* C22: under a clock that keeps advancing, every _get_single_distance()
\* call returns whatever is read from the echo pin, each polling loop being
\* left by an echo transition or by its timeout (never because reads ran
\* out), and every get_distance() call returns, after at most
\* 2 * sample_count pulses.
C22_Terminates ==
    /\ [](ppc \in {"settle", "pulse", "triggered", "wait_high", "wait_low"}
            => <>(ppc \in {"done", "faulted"}))
    /\ [](pc = "sampling" => <>(pc = "idle" /\ result # None))
    /\ [](echo_polls < PollLimit)
    /\ [](pulses <= 2 * sample_count /\ pulses < PulseLimit)

C22_Witness ==
    /\ pc = "idle"
    /\ result = Some(Sentinel)
    /\ sample_count = MaxSampleCount
    /\ pulses = 2 * sample_count
    /\ ppc = "done"
    /\ pulse_result = Some(Sentinel)
    /\ waited_low
    /\ echo = "HIGH"

C28_Quality ==
    (qpc = "idle" /\ quality # "none") =>
        LET n == Len(readings_buffer)
            full == n = filter_size
        IN  /\ quality_calls = 1
            /\ quality_distance = result
            /\ n <= filter_size
            /\ result = Some(Sentinel) => quality = "poor"
            /\ quality \in {"excellent", "good"} => full
            /\ (result # Some(Sentinel) /\ full /\ n > 1) =>
                  /\ quality = "excellent" <=>
                        2 * VarianceTimes(readings_buffer) < SquareCm * n * (n - 1)
                  /\ quality = "fair" <=>
                        VarianceTimes(readings_buffer) >= 2 * SquareCm * n * (n - 1)
            /\ (result # Some(Sentinel) /\ full /\ n = 1) => quality = "good"
            /\ (result # Some(Sentinel) /\ ~full /\ n >= 3) => quality = "fair"
            /\ (result # Some(Sentinel) /\ ~full /\ n < 3) => quality = "poor"

C28_Witness ==
    /\ qpc = "idle"
    /\ quality = "fair"
    /\ Len(readings_buffer) = 3
    /\ filter_size = 4
    /\ VarianceTimes(readings_buffer) = 0
    /\ quality_distance = result

\* The most recent call of a servo method, and whether it issued a
\* ChangeDutyCycle command.
LastServoCall == servo_log[Len(servo_log)]
Commanded(call, count_after) == count_after = call.duty_count + 1
NotCommanded(call, count_after) == count_after = call.duty_count

\* C23 as stated: _lock() on a locked servo and _unlock() on an unlocked
\* servo issue no duty-cycle command and leave is_locked as it was, while
\* _lock() on an unlocked servo and _unlock() on a locked servo issue a
\* command and set is_locked to True and False respectively.
C23_Idempotent ==
    servo_log # << >> =>
        LET call == LastServoCall
        IN  /\ call.method = "lock" =>
                /\ is_locked
                /\ IF call.is_locked THEN NotCommanded(call, duty_count)
                                     ELSE Commanded(call, duty_count)
            /\ call.method = "unlock" =>
                /\ ~is_locked
                /\ IF call.is_locked THEN Commanded(call, duty_count)
                                     ELSE NotCommanded(call, duty_count)

\* C23 amended: _lock() on a locked servo and _unlock() on an unlocked servo
\* issue no duty-cycle command and leave is_locked as it was; _lock() on an
\* unlocked servo and _unlock() on a locked servo set is_locked to True and
\* False respectively, and issue a command while the PWM is active; after
\* cleanup() has set pwm to None they issue no command.
C23_IdempotentWhilePwm ==
    servo_log # << >> =>
        LET call == LastServoCall
        IN  /\ call.method = "lock" =>
                /\ is_locked
                /\ IF call.is_locked \/ pwm = "none"
                   THEN NotCommanded(call, duty_count)
                   ELSE Commanded(call, duty_count)
            /\ call.method = "unlock" =>
                /\ ~is_locked
                /\ IF ~call.is_locked \/ pwm = "none"
                   THEN NotCommanded(call, duty_count)
                   ELSE Commanded(call, duty_count)

\* C23 witness: with the PWM active, _unlock() on a locked servo was
\* followed by a second _unlock().
C23_Witness ==
    /\ pwm = "active"
    /\ Len(servo_log) = 2
    /\ servo_log[1].method = "unlock"
    /\ servo_log[1].is_locked
    /\ servo_log[2].method = "unlock"
    /\ ~servo_log[2].is_locked
    /\ duty_count = servo_log[1].duty_count + 1

\* C24: toggle() always flips is_locked, so two consecutive toggles restore
\* the value is_locked had before them; this holds in every reachable state,
\* also after cleanup() has set pwm to None.
C24_ToggleFlips ==
    /\ (servo_log # << >> /\ LastServoCall.method = "toggle") =>
            is_locked = ~LastServoCall.is_locked
    /\ (/\ Len(servo_log) = 2
        /\ servo_log[1].method = "toggle"
        /\ servo_log[2].method = "toggle") =>
            is_locked = servo_log[1].is_locked

\* C24 witness: two consecutive toggles after cleanup().
C24_Witness ==
    /\ pwm = "none"
    /\ Len(servo_log) = 2
    /\ servo_log[1].method = "toggle"
    /\ servo_log[2].method = "toggle"
    /\ is_locked = servo_log[1].is_locked
    /\ is_locked = ~servo_log[2].is_locked

\* C29 as stated: while the PWM is active, a constructed servo has been
\* given a ChangeDutyCycle command, and is_locked is True exactly when the
\* most recent command was for locked_angle.
C29_LockedMatchesCommand ==
    (servo_pc = "ready" /\ pwm = "active") =>
        /\ last_angle # None
        /\ is_locked <=> (last_angle = Some(ClampAngle(locked_angle)))

\* C25 as stated: is_initialized is True after a successful constructor and
\* False after every cleanup() call; if _initialize_component raises, the
\* constructor raises RuntimeError and is_initialized stays False; cleanup()
\* on a component that is not initialized does not run _cleanup_component
\* or touch a GPIO pin.
C25_Lifecycle ==
    [][/\ (base_pc = "new" /\ base_pc' = "constructed") =>
                (is_initialized' /\ base_raised' = "none")
       /\ (base_pc = "new" /\ base_pc' = "failed") =>
                (~is_initialized' /\ base_raised' = "RuntimeError")
       /\ cleanup_calls' = cleanup_calls + 1 => ~is_initialized'
       /\ (cleanup_calls' = cleanup_calls + 1 /\ ~is_initialized) =>
                /\ cleanup_runs' = cleanup_runs
                /\ pin_resets' = pin_resets
                /\ base_raised' = "none"]_vars

\* C25 amended: is_initialized is True after a successful constructor and
\* False after every cleanup() call that returns; when _cleanup_component
\* raises, cleanup() raises too, resets no pin and leaves is_initialized
\* True; if _initialize_component raises, the constructor raises
\* RuntimeError and is_initialized stays False; cleanup() on a component
\* that is not initialized (a second cleanup() included) does not run
\* _cleanup_component or touch a GPIO pin.
C25_LifecycleReturning ==
    [][/\ (base_pc = "new" /\ base_pc' = "constructed") =>
                (is_initialized' /\ base_raised' = "none")
       /\ (base_pc = "new" /\ base_pc' = "failed") =>
                (~is_initialized' /\ base_raised' = "RuntimeError")
       /\ cleanup_calls' = cleanup_calls + 1 =>
                IF base_raised' = "none"
                THEN ~is_initialized'
                ELSE /\ is_initialized /\ is_initialized'
                     /\ cleanup_runs' = cleanup_runs + 1
                     /\ pin_resets' = pin_resets
       /\ (cleanup_calls' = cleanup_calls + 1 /\ ~is_initialized) =>
                /\ cleanup_runs' = cleanup_runs
                /\ pin_resets' = pin_resets
                /\ base_raised' = "none"]_vars

\* C25 witness: a component with two registered pins was cleaned up twice;
\* _cleanup_component ran once and the pins were reset once.
C25_Witness ==
    /\ base_pc = "constructed"
    /\ Cardinality(gpio_pins_used) = 2
    /\ cleanup_calls = 2
    /\ cleanup_runs = 1
    /\ pin_resets = 2
    /\ ~is_initialized
    /\ base_raised = "none"

\* C26 as stated: whichever way run() is left (KeyboardInterrupt in the
\* loop, an unexpected exception in the loop, a failure while constructing
\* the LCD or the sensor), it returns without propagating the error and
\* GPIO.cleanup() was called exactly once; when the LCD and the sensor were
\* constructed, their cleanup() was called exactly once each.
C26_ExitPathsCleanUp ==
    rpc \in {"returned", "propagated"} =>
        /\ rpc = "returned"
        /\ pending = "none"
        /\ gpio_cleanups = 1
        /\ lcd_made => lcd_cleanups = 1
        /\ sensor_made => sensor_cleanups = 1

\* The coil patterns the claim lists, IN1 first.
ListedClockwise ==
    << << 1, 0, 0, 1 >>, << 1, 1, 0, 0 >>, << 0, 1, 1, 0 >>, << 0, 0, 1, 1 >> >>
ListedCounterclockwise ==
    << << 1, 0, 0, 1 >>, << 0, 0, 1, 1 >>, << 0, 1, 1, 0 >>, << 1, 1, 0, 0 >> >>

\* Exactly two coils are energised and they are neighbours on the ring of
\* four.
TwoAdjacentCoils(c) ==
    \E k \in 1..4 :
        /\ c[k] = 1
        /\ c[(k % 4) + 1] = 1
        /\ \A m \in 1..4 : (m # k /\ m # (k % 4) + 1) => c[m] = 0

\* The k-th pattern (k in 0..3) of the step that wrote patterns[n].
PositionInStep(n) == (n - 1) % 4

\* C30: every pattern written by a step energises exactly two adjacent
\* coils; a clockwise step writes 1001, 1100, 0110, 0011 and a
\* counterclockwise step 1001, 0011, 0110, 1100; and the counterclockwise
\* patterns are the clockwise cycle traversed in the opposite direction:
\* the k-th counterclockwise pattern is the clockwise pattern at position
\* (4 - k) mod 4.
C30_CoilPatterns ==
    /\ \A n \in 1..Len(patterns) :
        /\ TwoAdjacentCoils(patterns[n].coils)
        /\ patterns[n].coils =
            IF patterns[n].direction = "cw"
            THEN ListedClockwise[PositionInStep(n) + 1]
            ELSE ListedCounterclockwise[PositionInStep(n) + 1]
    /\ \A n, m \in 1..Len(patterns) :
        (/\ patterns[n].direction = "ccw"
         /\ patterns[m].direction = "cw"
         /\ PositionInStep(m) = (4 - PositionInStep(n)) % 4) =>
            patterns[n].coils = patterns[m].coils

\* C30 witness: a clockwise and a counterclockwise step have both been
\* completed.
C30_Witness ==
    /\ step_dir = "none"
    /\ Len(patterns) >= 8
    /\ \E n, m \in 1..Len(patterns) :
        /\ PositionInStep(n) = 3 /\ patterns[n].direction = "cw"
        /\ PositionInStep(m) = 3 /\ patterns[m].direction = "ccw"

====
